---- MODULE Spec2Model ----
(***************************************************************************)
(* Model of app.py: convert_meetup_csv_to_leaflet_json and its helpers.   *)
(*                                                                         *)
(* Number representation                                                   *)
(*   - a CSV cell is None (cell missing from a short row), a piece of     *)
(*     text, or a decimal literal with one fractional digit, held as its  *)
(*     value in tenths: Dec(127) is the cell "12.7";                       *)
(*   - a Python float is finite (value in tenths), NaN, +inf or -inf;      *)
(*   - engagement weights are held in thousandths (1.0 is 1000);           *)
(*   - a recency is the exact fraction n/d in lowest terms.                *)
(***************************************************************************)
EXTENDS Integers, Sequences, FiniteSets, TLC

VARIABLES
    csv,              \* the rows csv.DictReader yields for csv_path
    aggregate,        \* parameter aggregate
    decimals,         \* parameter aggregate_precision_decimals
    fs,               \* out_dir and the four output files
    pc,               \* position in convert_meetup_csv_to_leaflet_json
    i,                \* rows consumed by the first loop
    rows_parsed,      \* list rows_parsed
    max_last_access,  \* local max_last_access
    j,                \* items consumed by the second loop
    agg,              \* dict agg, in insertion order
    points,           \* list points
    heat_presence,    \* list heat_presence
    heat_engagement,  \* list heat_engagement
    meta              \* the returned dict

vars == <<csv, aggregate, decimals, fs, pc, i, rows_parsed, max_last_access, j,
          agg, points, heat_presence, heat_engagement, meta>>

-----------------------------------------------------------------------------
(* Bounds *)

MaxRows == 3

-----------------------------------------------------------------------------
(* CSV cells and Python values *)

Missing == [k |-> "missing", s |-> "", t |-> 0]
Txt(s) == [k |-> "text", s |-> s, t |-> 0]
Dec(t) == [k |-> "dec", s |-> "", t |-> t]

NoneV == [k |-> "none", t |-> 0]
Fin(t) == [k |-> "fin", t |-> t]
NaN == [k |-> "nan", t |-> 0]
PosInf == [k |-> "inf", t |-> 1]
NegInf == [k |-> "inf", t |-> -1]
IntV(n) == [k |-> "int", t |-> n]
Raise == [k |-> "raise", t |-> 0]

\* str.strip() on the text cells of the model
Strip(s) ==
    CASE s = " nan " -> "nan"
      [] s = "  " -> ""
      [] OTHER -> s

\* str.lower() on the text cells of the model
Lower(s) ==
    CASE s = "NaN" -> "nan"
      [] s = "NULL" -> "null"
      [] s = "None" -> "none"
      [] OTHER -> s

\* float(x) on a stripped text cell; Raise stands for ValueError
PyFloat(s) ==
    CASE s \in {"-nan", "+nan"} -> NaN
      [] s \in {"inf", "Infinity"} -> PosInf
      [] s = "-inf" -> NegInf
      [] OTHER -> Raise

to_float(x) ==
    IF x.k = "missing" THEN NoneV
    ELSE IF x.k = "dec" THEN Fin(x.t)
    ELSE LET s == Strip(x.s) IN
         IF s = "" \/ Lower(s) \in {"nan", "none", "null"} THEN NoneV
         ELSE IF PyFloat(s) = Raise THEN NoneV
         ELSE PyFloat(s)

\* int(f) for a finite float held in tenths: truncation toward zero
Trunc(t) == IF t >= 0 THEN t \div 10 ELSE -((-t) \div 10)

to_int(x) ==
    IF x.k = "missing" THEN NoneV
    ELSE IF x.k = "dec" THEN IntV(Trunc(x.t))
    ELSE LET s == Strip(x.s) IN
         IF s = "" \/ Lower(s) \in {"nan", "none", "null"} THEN NoneV
         ELSE IF PyFloat(s).k = "fin" THEN IntV(Trunc(PyFloat(s).t))
         ELSE NoneV   \* float(s) raises, or int(nan), int(inf) raise

\* a <= b on floats; every comparison with NaN is false
FLeq(a, b) ==
    /\ a.k # "nan"
    /\ b.k # "nan"
    /\ \/ a.k = "fin" /\ b.k = "fin" /\ a.t <= b.t
       \/ a.k = "inf" /\ a.t = -1
       \/ b.k = "inf" /\ b.t = 1

FLess(a, b) == FLeq(a, b) /\ a # b

is_valid_lat_lon(lat, lon) ==
    /\ lat.k # "none"
    /\ lon.k # "none"
    /\ lat.k # "nan"
    /\ lon.k # "nan"
    /\ FLeq(Fin(-900), lat) /\ FLeq(lat, Fin(900))
    /\ FLeq(Fin(-1800), lon) /\ FLeq(lon, Fin(1800))

-----------------------------------------------------------------------------
(* Weight model *)

\* floor(1000 * ln(1 + t/10)) for the event counts of the model
Log1pTable ==
    (0 :> 0) @@ (10 :> 693) @@ (20 :> 1098) @@ (25 :> 1252) @@ (50 :> 1791)
    @@ (81020 :> 8999) @@ (81030 :> 9000) @@ (10000000 :> 13815)

CapMilli == 10000

\* math.log1p in thousandths; log1p(inf) is inf
Log1pMilli(x) == IF x.k = "inf" THEN PosInf ELSE Fin(Log1pTable[x.t])

\* max(0.0, events): the second argument wins only when it is greater
ClampEvents(events) == IF FLess(Fin(0), events) THEN events ELSE Fin(0)

\* faulty variant: the cap of 10.0 is lost
weight_from_events_nocap(row) ==
    LET events == to_float(row.events_attended) IN
    IF events.k = "none" THEN 1000
    ELSE LET l == Log1pMilli(ClampEvents(events)) IN
         IF l.k = "inf" THEN 2 * CapMilli ELSE 1000 + l.t

weight_from_events(row) ==
    LET events == to_float(row.events_attended) IN
    IF events.k = "none" THEN 1000
    ELSE LET l == Log1pMilli(ClampEvents(events)) IN
         IF l.k = "fin" /\ 1000 + l.t < CapMilli THEN 1000 + l.t ELSE CapMilli

-----------------------------------------------------------------------------
(* Recency *)

RECURSIVE GCD(_, _)
GCD(a, b) == IF b = 0 THEN a ELSE GCD(b, a % b)

\* the float n/d, d > 0, as a fraction in lowest terms
Frac(n, d) == LET g == GCD(n, d) IN [n |-> n \div g, d |-> d \div g]

Zero == [n |-> 0, d |-> 1]
One == [n |-> 1, d |-> 1]

RLess(a, b) == a.n * b.d < b.n * a.d

\* Python max(a, b) and min(a, b): the first argument unless the second beats it
PyMax(a, b) == IF RLess(a, b) THEN b ELSE a
PyMin(a, b) == IF RLess(b, a) THEN b ELSE a

\* faulty variant: the ratio is returned without clamping
normalize_recency_seconds_unclamped(access_time, max_seconds) ==
    IF access_time.k = "none" \/ max_seconds <= 0 THEN Zero
    ELSE Frac(access_time.t, max_seconds)

normalize_recency_seconds(access_time, max_seconds) ==
    IF access_time.k = "none" \/ max_seconds <= 0 THEN Zero
    ELSE LET a == IF access_time.t > 0 THEN access_time.t ELSE 0 IN
         PyMax(Zero, PyMin(One, Frac(a, max_seconds)))

-----------------------------------------------------------------------------
(* Rounding of coordinates *)

\* round(x, ndigits) on a float with one fractional digit: ndigits = 0 rounds
\* half to even, ndigits >= 1 leaves the value as it is
Round(x, ndigits) ==
    IF ndigits >= 1 THEN x
    ELSE LET q == x.t \div 10
             r == x.t % 10
         IN  IF r < 5 THEN Fin(10 * q)
             ELSE IF r > 5 THEN Fin(10 * (q + 1))
             ELSE IF q % 2 = 0 THEN Fin(10 * q) ELSE Fin(10 * (q + 1))

Key(lat, lon, ndigits) == <<Round(lat, ndigits), Round(lon, ndigits)>>

-----------------------------------------------------------------------------
(* The two loops of convert_meetup_csv_to_leaflet_json as pure steps *)

CsvPath == "members.csv"
OutDir == "out"

\* faulty variant: the running maximum is updated before the row is validated
FirstPassBody_max_before_check(st, row) ==
    LET lat == to_float(row.lat)
        lon == to_float(row.lon)
        last_access == to_int(row.last_access_time)
        m == IF last_access.k # "none" /\ last_access.t > st.max_last_access
             THEN last_access.t
             ELSE st.max_last_access
    IN  IF lat.k = "none" \/ lon.k = "none" \/ ~is_valid_lat_lon(lat, lon)
        THEN [st EXCEPT !.max_last_access = m]
        ELSE [rows_parsed |-> Append(st.rows_parsed,
                                     [lat |-> lat, lon |-> lon,
                                      w_eng |-> weight_from_events(row),
                                      last_access |-> last_access]),
              max_last_access |-> m]

\* faulty variant: the weight is read from the member_id column
FirstPassBody_wrong_column(st, row) ==
    LET lat == to_float(row.lat)
        lon == to_float(row.lon)
    IN  IF lat.k = "none" \/ lon.k = "none" \/ ~is_valid_lat_lon(lat, lon)
        THEN st
        ELSE LET w_eng == weight_from_events([row EXCEPT !.events_attended =
                                                           row.member_id])
                 last_access == to_int(row.last_access_time)
             IN  [rows_parsed |-> Append(st.rows_parsed,
                                         [lat |-> lat, lon |-> lon, w_eng |-> w_eng,
                                          last_access |-> last_access]),
                  max_last_access |->
                      IF last_access.k # "none" /\ last_access.t > st.max_last_access
                      THEN last_access.t
                      ELSE st.max_last_access]

\* the body of "for row in reader" on the pair (rows_parsed, max_last_access)
FirstPassBody(st, row) ==
    LET lat == to_float(row.lat)
        lon == to_float(row.lon)
    IN  IF lat.k = "none" \/ lon.k = "none" \/ ~is_valid_lat_lon(lat, lon)
        THEN st
        ELSE LET w_eng == weight_from_events(row)
                 last_access == to_int(row.last_access_time)
             IN  [rows_parsed |-> Append(st.rows_parsed,
                                         [lat |-> lat, lon |-> lon, w_eng |-> w_eng,
                                          last_access |-> last_access]),
                  max_last_access |->
                      IF last_access.k # "none" /\ last_access.t > st.max_last_access
                      THEN last_access.t
                      ELSE st.max_last_access]

\* position of key in the dict agg, 0 when absent
Lookup(d, key) ==
    IF \E n \in 1..Len(d) : <<d[n].lat, d[n].lon>> = key
    THEN CHOOSE n \in 1..Len(d) : <<d[n].lat, d[n].lon>> = key
    ELSE 0

NewBucket(key) ==
    [lat |-> key[1], lon |-> key[2], w_presence |-> 0, w_engagement |-> 0,
     recency_max |-> Zero, count |-> 0]

\* faulty variant: the engagement weight is assigned, not added
Accumulate_assign(b, w_eng, recency) ==
    [b EXCEPT !.w_presence = @ + 1,
              !.w_engagement = w_eng,
              !.recency_max = PyMax(@, recency),
              !.count = @ + 1]

\* the four updates of agg[key]
Accumulate(b, w_eng, recency) ==
    [b EXCEPT !.w_presence = @ + 1,
              !.w_engagement = @ + w_eng,
              !.recency_max = PyMax(@, recency),
              !.count = @ + 1]

\* faulty variant: buckets are keyed by the unrounded coordinates
AggregateItem_rawkey(d, item, recency, ndigits) ==
    LET key == <<item.lat, item.lon>>
        d1 == IF Lookup(d, key) = 0 THEN Append(d, NewBucket(key)) ELSE d
        n == Lookup(d1, key)
    IN  [d1 EXCEPT ![n] = Accumulate(@, item.w_eng, recency)]

\* faulty variant: a new bucket goes to the front of the dict
AggregateItem_prepend(d, item, recency, ndigits) ==
    LET key == Key(item.lat, item.lon, ndigits)
        d1 == IF Lookup(d, key) = 0 THEN <<NewBucket(key)>> \o d ELSE d
        n == Lookup(d1, key)
    IN  [d1 EXCEPT ![n] = Accumulate(@, item.w_eng, recency)]

\* the aggregate branch of the second loop
AggregateItem(d, item, recency, ndigits) ==
    LET key == Key(item.lat, item.lon, ndigits)
        d1 == IF Lookup(d, key) = 0 THEN Append(d, NewBucket(key)) ELSE d
        n == Lookup(d1, key)
    IN  [d1 EXCEPT ![n] = Accumulate(@, item.w_eng, recency)]

\* the body of "for item in rows_parsed" on (agg, points, heat_presence,
\* heat_engagement)
SecondPassBody(acc, item, max_seen, agg_on, ndigits) ==
    LET recency == normalize_recency_seconds(item.last_access, max_seen) IN
    IF agg_on
    THEN [acc EXCEPT !.agg = AggregateItem(@, item, recency, ndigits)]
    ELSE [acc EXCEPT
            !.points = Append(@, [lat |-> item.lat, lon |-> item.lon,
                                  w_presence |-> 1, w_engagement |-> item.w_eng,
                                  recency |-> recency]),
            !.heat_presence = Append(@, <<item.lat, item.lon, 1>>),
            !.heat_engagement = Append(@, <<item.lat, item.lon, item.w_eng>>)]

\* p["recency"] = p.pop("recency_max")
RenameRecency(p) ==
    [lat |-> p.lat, lon |-> p.lon, w_presence |-> p.w_presence,
     w_engagement |-> p.w_engagement, count |-> p.count, recency |-> p.recency_max]

\* the "if aggregate:" block after the second loop
Finalize(acc, agg_on) ==
    IF agg_on
    THEN [acc EXCEPT
            !.points = [n \in 1..Len(acc.agg) |-> RenameRecency(acc.agg[n])],
            !.heat_presence =
                [n \in 1..Len(acc.agg) |->
                    <<acc.agg[n].lat, acc.agg[n].lon, acc.agg[n].w_presence>>],
            !.heat_engagement =
                [n \in 1..Len(acc.agg) |->
                    <<acc.agg[n].lat, acc.agg[n].lon, acc.agg[n].w_engagement>>]]
    ELSE acc

PathOf(name) == [dir |-> OutDir, file |-> name]

BuildMeta(pts, agg_on, ndigits, max_seen) ==
    [input_csv |-> CsvPath,
     total_points_output |-> Len(pts),
     aggregate |-> agg_on,
     aggregate_precision_decimals |-> ndigits,
     max_last_access_time_seen |-> max_seen,
     outputs |-> [points |-> PathOf("members_points.json"),
                  heat_presence |-> PathOf("members_heat_presence.json"),
                  heat_engagement |-> PathOf("members_heat_engagement.json")],
     privacy_note |->
         "No member_name or member_id included. Only lat/lon + derived weights/recency."]

NoMeta == BuildMeta(<<>>, FALSE, 0, 0)

EmptyPass1 == [rows_parsed |-> <<>>, max_last_access |-> 0]
EmptyAcc == [agg |-> <<>>, points |-> <<>>, heat_presence |-> <<>>,
             heat_engagement |-> <<>>]

\* the first loop over the first n rows
RECURSIVE FirstPass(_, _)
FirstPass(rows, n) ==
    IF n = 0 THEN EmptyPass1 ELSE FirstPassBody(FirstPass(rows, n - 1), rows[n])

\* the second loop over the first n buffered rows
RECURSIVE SecondPass(_, _, _, _, _)
SecondPass(items, n, max_seen, agg_on, ndigits) ==
    IF n = 0 THEN EmptyAcc
    ELSE SecondPassBody(SecondPass(items, n - 1, max_seen, agg_on, ndigits),
                        items[n], max_seen, agg_on, ndigits)

\* what one call computes from the rows of its input: the three arrays and meta
Convert(rows, agg_on, ndigits) ==
    LET st == FirstPass(rows, Len(rows))
        acc == Finalize(SecondPass(st.rows_parsed, Len(st.rows_parsed),
                                   st.max_last_access, agg_on, ndigits), agg_on)
    IN  [points |-> acc.points,
         heat_presence |-> acc.heat_presence,
         heat_engagement |-> acc.heat_engagement,
         meta |-> BuildMeta(acc.points, agg_on, ndigits, st.max_last_access)]

-----------------------------------------------------------------------------
(* The file system under out_dir *)

NoFile(empty) == [state |-> "absent", data |-> empty]
OldFile(empty) == [state |-> "old", data |-> empty]
Written(data) == [state |-> "written", data |-> data]

FsFresh ==
    [dir |-> "absent", points |-> NoFile(<<>>), heat_presence |-> NoFile(<<>>),
     heat_engagement |-> NoFile(<<>>), meta |-> NoFile(NoMeta)]
FsUsed ==
    [dir |-> "preexisting", points |-> OldFile(<<>>), heat_presence |-> OldFile(<<>>),
     heat_engagement |-> OldFile(<<>>), meta |-> OldFile(NoMeta)]

-----------------------------------------------------------------------------
(* The state machine *)

Row(lat, lon, ev, la, name, id) ==
    [lat |-> lat, lon |-> lon, events_attended |-> ev, last_access_time |-> la,
     member_name |-> name, member_id |-> id]

Inputs(RowSet) == UNION {[1..n -> RowSet] : n \in 0..MaxRows}

InitWith(RowSet, AggSet, DecSet, FsSet) ==
    /\ csv \in Inputs(RowSet)
    /\ aggregate \in AggSet
    /\ decimals \in DecSet
    /\ fs \in FsSet
    /\ pc = "mkdir"
    /\ i = 0
    /\ rows_parsed = <<>>
    /\ max_last_access = 0
    /\ j = 0
    /\ agg = <<>>
    /\ points = <<>>
    /\ heat_presence = <<>>
    /\ heat_engagement = <<>>
    /\ meta = NoMeta

locals == <<i, rows_parsed, max_last_access, j, agg, points, heat_presence,
            heat_engagement>>
params == <<csv, aggregate, decimals>>

\* faulty variant: the points file is opened for writing before the input is read
Mkdir_opens_output ==
    /\ pc = "mkdir"
    /\ fs' = [fs EXCEPT !.dir = IF @ = "absent" THEN "created" ELSE @,
                        !.points = Written(<<>>)]
    /\ pc' = "open"
    /\ UNCHANGED <<params, locals, meta>>

\* out_dir_path.mkdir(parents=True, exist_ok=True)
Mkdir ==
    /\ pc = "mkdir"
    /\ fs' = [fs EXCEPT !.dir = IF @ = "absent" THEN "created" ELSE @]
    /\ pc' = "open"
    /\ UNCHANGED <<params, locals, meta>>

\* open(csv_path) and csv.DictReader(f) succeed
OpenInput ==
    /\ pc = "open"
    /\ pc' = "pass1"
    /\ UNCHANGED <<params, fs, locals, meta>>

\* open(csv_path) raises: the exception leaves the function
OpenFails ==
    /\ pc = "open"
    /\ pc' = "failed"
    /\ UNCHANGED <<params, fs, locals, meta>>

\* faulty variant: a single loop, each row normalized as soon as it is read
ReadRow_streaming ==
    /\ pc = "pass1"
    /\ i < Len(csv)
    /\ LET st == FirstPassBody([rows_parsed |-> rows_parsed,
                                max_last_access |-> max_last_access], csv[i + 1])
           acc0 == [agg |-> agg, points |-> points, heat_presence |-> heat_presence,
                    heat_engagement |-> heat_engagement]
           acc == IF Len(st.rows_parsed) > Len(rows_parsed)
                  THEN SecondPassBody(acc0, st.rows_parsed[Len(st.rows_parsed)],
                                      st.max_last_access, aggregate, decimals)
                  ELSE acc0
       IN  /\ rows_parsed' = st.rows_parsed
           /\ max_last_access' = st.max_last_access
           /\ agg' = acc.agg
           /\ points' = acc.points
           /\ heat_presence' = acc.heat_presence
           /\ heat_engagement' = acc.heat_engagement
           /\ j' = Len(st.rows_parsed)
    /\ i' = i + 1
    /\ UNCHANGED <<params, fs, pc, meta>>

\* one iteration of "for row in reader"
ReadRow ==
    /\ pc = "pass1"
    /\ i < Len(csv)
    /\ LET st == FirstPassBody([rows_parsed |-> rows_parsed,
                                max_last_access |-> max_last_access], csv[i + 1])
       IN  /\ rows_parsed' = st.rows_parsed
           /\ max_last_access' = st.max_last_access
    /\ i' = i + 1
    /\ UNCHANGED <<params, fs, pc, j, agg, points, heat_presence, heat_engagement, meta>>

\* the reader raises while iterating (a decoding or csv error): the exception
\* leaves the function and its locals are gone
ReadFails ==
    /\ pc = "pass1"
    /\ i < Len(csv)
    /\ pc' = "failed"
    /\ i' = 0
    /\ rows_parsed' = <<>>
    /\ max_last_access' = 0
    /\ UNCHANGED <<params, fs, j, agg, points, heat_presence, heat_engagement, meta>>

\* the reader is exhausted and the with block closes the file
EndOfInput ==
    /\ pc = "pass1"
    /\ i = Len(csv)
    /\ pc' = "pass2"
    /\ UNCHANGED <<params, fs, locals, meta>>

\* one iteration of "for item in rows_parsed"
ProcessItem ==
    /\ pc = "pass2"
    /\ j < Len(rows_parsed)
    /\ LET acc == SecondPassBody([agg |-> agg, points |-> points,
                                  heat_presence |-> heat_presence,
                                  heat_engagement |-> heat_engagement],
                                 rows_parsed[j + 1], max_last_access, aggregate,
                                 decimals)
       IN  /\ agg' = acc.agg
           /\ points' = acc.points
           /\ heat_presence' = acc.heat_presence
           /\ heat_engagement' = acc.heat_engagement
    /\ j' = j + 1
    /\ UNCHANGED <<params, fs, pc, i, rows_parsed, max_last_access, meta>>

\* the "if aggregate:" block
BuildPoints ==
    /\ pc = "pass2"
    /\ j = Len(rows_parsed)
    /\ LET acc == Finalize([agg |-> agg, points |-> points,
                            heat_presence |-> heat_presence,
                            heat_engagement |-> heat_engagement], aggregate)
       IN  /\ points' = acc.points
           /\ heat_presence' = acc.heat_presence
           /\ heat_engagement' = acc.heat_engagement
    /\ pc' = "write_points"
    /\ UNCHANGED <<params, fs, i, rows_parsed, max_last_access, j, agg, meta>>

WritePoints ==
    /\ pc = "write_points"
    /\ fs' = [fs EXCEPT !.points = Written(points)]
    /\ pc' = "write_heat_presence"
    /\ UNCHANGED <<params, locals, meta>>

WriteHeatPresence ==
    /\ pc = "write_heat_presence"
    /\ fs' = [fs EXCEPT !.heat_presence = Written(heat_presence)]
    /\ pc' = "write_heat_engagement"
    /\ UNCHANGED <<params, locals, meta>>

WriteHeatEngagement ==
    /\ pc = "write_heat_engagement"
    /\ fs' = [fs EXCEPT !.heat_engagement = Written(heat_engagement)]
    /\ pc' = "write_meta"
    /\ UNCHANGED <<params, locals, meta>>

\* meta is built, written and returned
WriteMeta ==
    /\ pc = "write_meta"
    /\ meta' = BuildMeta(points, aggregate, decimals, max_last_access)
    /\ fs' = [fs EXCEPT !.meta = Written(meta')]
    /\ pc' = "done"
    /\ UNCHANGED <<params, locals>>

Next ==
    \/ Mkdir
    \/ OpenInput
    \/ OpenFails
    \/ ReadRow
    \/ ReadFails
    \/ EndOfInput
    \/ ProcessItem
    \/ BuildPoints
    \/ WritePoints
    \/ WriteHeatPresence
    \/ WriteHeatEngagement
    \/ WriteMeta

-----------------------------------------------------------------------------
(* Inputs and specifications *)

NoName == Txt("")

\* rows that share rounded keys, with every kind of last_access_time, and one
\* row that fails validation
MixedRows ==
    { Row(Dec(4), Dec(0), Dec(20), Dec(40), NoName, NoName),
      Row(Dec(5), Dec(0), Missing, Dec(80), NoName, NoName),
      Row(Dec(15), Dec(0), Dec(50), Missing, NoName, NoName),
      Row(Dec(15), Dec(0), Txt("abc"), Dec(-30), NoName, NoName),
      Row(Dec(4), Dec(0), Dec(50), Dec(0), NoName, NoName),
      Row(Dec(5), Dec(-5), Dec(20), Txt("abc"), NoName, NoName),
      Row(Dec(-15), Dec(0), Missing, Dec(127), NoName, NoName),
      Row(Dec(901), Dec(0), Dec(81030), Dec(900), NoName, NoName) }

Init == InitWith(MixedRows, BOOLEAN, {0, 1}, {FsFresh, FsUsed})

Spec == Init /\ [][Next]_vars

\* two valid rows, one of them on the boundary of the range, and rows that fail
\* validation in every way while carrying the largest events_attended and
\* last_access_time
BadCoordinates ==
    { <<Dec(901), Dec(0)>>, <<Dec(-901), Dec(0)>>, <<Dec(5), Dec(1801)>>,
      <<Dec(5), Dec(-1801)>>, <<Missing, Dec(0)>>, <<Dec(5), Txt("")>>,
      <<Txt("abc"), Dec(0)>>, <<Dec(5), Txt("NULL")>>, <<Txt("-nan"), Dec(0)>>,
      <<Dec(5), Txt("inf")>> }

ValidationRows ==
    { Row(Dec(5), Dec(0), Dec(20), Dec(40), NoName, NoName),
      Row(Dec(900), Dec(-1800), Missing, Dec(-30), NoName, NoName) }
    \cup { Row(c[1], c[2], Dec(81030), Dec(900), NoName, NoName) : c \in BadCoordinates }

InitValidation == InitWith(ValidationRows, BOOLEAN, {0}, {FsFresh})

SpecValidation == InitValidation /\ [][Next]_vars

\* valid rows that differ in events_attended only
EventCells ==
    { Missing, Txt(""), Txt(" nan "), Txt("NULL"), Txt("abc"), Txt("-nan"),
      Txt("inf"), Dec(-30), Dec(-5), Dec(0), Dec(20), Dec(81020), Dec(81030),
      Dec(10000000) }

EventRows == { Row(Dec(5), Dec(0), e, Missing, NoName, NoName) : e \in EventCells }

InitEvents == InitWith(EventRows, {FALSE}, {0}, {FsFresh})

SpecEvents == InitEvents /\ [][Next]_vars

\* rows that agree on the four fields read, under every member name and id
MemberRows ==
    { Row(g[1], Dec(0), g[2], g[3], name, id) :
        g \in { <<Dec(4), Dec(20), Dec(40)>>, <<Dec(15), Missing, Dec(80)>> },
        name \in { Txt("alice"), Txt("bob") },
        id \in { Dec(10), Dec(50) } }

InitMembers == InitWith(MemberRows, BOOLEAN, {0}, {FsFresh})

SpecMembers == InitMembers /\ [][Next]_vars

-----------------------------------------------------------------------------
(* Vocabulary of the properties, stated on the cells of the input *)

\* the cell holds a finite number
IsNumber(x) == x.k = "dec"

\* lat and lon are present, parse to a finite number and are in range
PassesValidation(row) ==
    /\ IsNumber(row.lat) /\ -900 <= row.lat.t /\ row.lat.t <= 900
    /\ IsNumber(row.lon) /\ -1800 <= row.lon.t /\ row.lon.t <= 1800

Survivors == SelectSeq(csv, PassesValidation)

\* the rounded-coordinate key of a surviving input row
RowKey(row) == Key(Fin(row.lat.t), Fin(row.lon.t), decimals)
PointKey(p) == <<p.lat, p.lon>>

\* the points are final
Built == pc \in {"write_points", "write_heat_presence", "write_heat_engagement",
                 "write_meta", "done"}

RECURSIVE SumOver(_, _)
SumOver(f, S) ==
    IF S = {} THEN 0
    ELSE LET x == CHOOSE y \in S : TRUE IN f[x] + SumOver(f, S \ {x})

\* the greatest fraction of a nonempty set
Greatest(S) == CHOOSE r \in S : \A q \in S : ~RLess(r, q)

InUnitInterval(r) == r.d > 0 /\ 0 <= r.n /\ r.n <= r.d

\* the buffered rows that belong to point p
Members(p) ==
    {k \in 1..Len(rows_parsed) :
        Key(rows_parsed[k].lat, rows_parsed[k].lon, decimals) = PointKey(p)}

RowRecency(k) == normalize_recency_seconds(rows_parsed[k].last_access, max_last_access)

-----------------------------------------------------------------------------
(* C2: with aggregate=true every final Point is the fold over its member   *)
(* rows: w_presence is their number, w_engagement the sum of their         *)
(* engagement weights, recency the maximum of their normalized recencies;  *)
(* and every surviving row is a member of exactly one Point.               *)
C2_AggregateIsFold ==
    (Built /\ aggregate) =>
        /\ \A n \in 1..Len(points) :
             LET M == Members(points[n]) IN
             /\ M # {}
             /\ points[n].w_presence = Cardinality(M)
             /\ points[n].w_engagement =
                    SumOver([k \in M |-> rows_parsed[k].w_eng], M)
             /\ points[n].recency = Greatest({RowRecency(k) : k \in M})
        /\ \A k \in 1..Len(rows_parsed) :
             Cardinality({n \in 1..Len(points) : k \in Members(points[n])}) = 1

C2_Witness ==
    /\ pc = "done"
    /\ aggregate
    /\ Len(points) = 2
    /\ \E n \in 1..Len(points) :
         /\ points[n].w_presence = 2
         /\ points[n].w_engagement > 2000
         /\ \E k1, k2 \in Members(points[n]) : RLess(RowRecency(k1), RowRecency(k2))

(* C3: the number of Points and total_points_output equal the number of    *)
(* rows passing validation when aggregate=false, and the number of         *)
(* distinct rounded keys among them when aggregate=true, no two Points     *)
(* sharing a key.                                                          *)
C3_PointCount ==
    (pc = "done") =>
        /\ meta.total_points_output = Len(points)
        /\ ~aggregate => Len(points) = Len(Survivors)
        /\ aggregate =>
             /\ Len(points) =
                    Cardinality({RowKey(Survivors[k]) : k \in 1..Len(Survivors)})
             /\ \A m, n \in 1..Len(points) :
                    PointKey(points[m]) = PointKey(points[n]) => m = n
             /\ \A k \in 1..Len(Survivors) :
                    \E n \in 1..Len(points) : PointKey(points[n]) = RowKey(Survivors[k])

C3_Witness ==
    /\ pc = "done"
    /\ aggregate
    /\ Len(Survivors) = 2
    /\ Len(csv) > Len(Survivors)
    /\ meta.total_points_output = 1

\* s without the later occurrences of its elements
RECURSIVE FirstOccurrences(_)
FirstOccurrences(s) ==
    IF s = <<>> THEN <<>>
    ELSE LET r == FirstOccurrences(SubSeq(s, 1, Len(s) - 1))
             x == s[Len(s)]
         IN  IF \E n \in 1..Len(r) : r[n] = x THEN r ELSE Append(r, x)

(* C9: with aggregate=true the i-th Point is the bucket of the i-th        *)
(* distinct rounded key in order of first encounter among the surviving    *)
(* rows; with aggregate=false it is the i-th surviving row, unrounded,     *)
(* with w_presence 1; in both modes entry i of either heat array is        *)
(* [lat, lon, weight] of Point i.                                          *)
C9_OrderFollowsInput ==
    Built =>
        /\ aggregate =>
             [n \in 1..Len(points) |-> PointKey(points[n])] =
                 FirstOccurrences([k \in 1..Len(Survivors) |-> RowKey(Survivors[k])])
        /\ ~aggregate =>
             /\ Len(points) = Len(Survivors)
             /\ \A n \in 1..Len(points) :
                  /\ points[n].lat = Fin(Survivors[n].lat.t)
                  /\ points[n].lon = Fin(Survivors[n].lon.t)
                  /\ points[n].w_presence = 1
        /\ Len(heat_presence) = Len(points)
        /\ Len(heat_engagement) = Len(points)
        /\ \A n \in 1..Len(points) :
             /\ heat_presence[n] =
                    <<points[n].lat, points[n].lon, points[n].w_presence>>
             /\ heat_engagement[n] =
                    <<points[n].lat, points[n].lon, points[n].w_engagement>>

C9_Witness ==
    /\ pc = "done"
    /\ aggregate
    /\ decimals = 0
    /\ Len(Survivors) = 3
    /\ Len(points) = 2
    /\ points[1].lat.t > points[2].lat.t
    /\ RowKey(Survivors[3]) = PointKey(points[1])
    /\ heat_engagement[1][3] # heat_presence[1][3]

\* the integer a last_access_time cell parses to
LastAccessOf(row) == Trunc(row.last_access_time.t)

\* the last_access_time values that parse, among the surviving rows
SeenLastAccess ==
    {LastAccessOf(Survivors[k]) :
        k \in {m \in 1..Len(Survivors) : IsNumber(Survivors[m].last_access_time)}}

Maximum(S) == CHOOSE x \in S : \A y \in S : y <= x

\* the maximum the whole run normalizes against
WholeRunMax == Maximum(SeenLastAccess \cup {0})

(* C10: no recency is computed before the first loop has consumed every    *)
(* input row, so every surviving row is normalized against the maximum of  *)
(* the whole run, wherever the row carrying the maximum stands, and a row  *)
(* carrying a positive maximum gets recency exactly 1.                     *)
C10_TwoPasses ==
    /\ (j > 0 \/ agg # <<>> \/ points # <<>>) =>
           (i = Len(csv) /\ pc \notin {"mkdir", "open", "pass1", "failed"})
    /\ (pc = "pass2" \/ Built) =>
           LET rows == Survivors
               whole == WholeRunMax
           IN
           /\ max_last_access = whole
           /\ \A n \in 1..j :
                LET la == rows[n].last_access_time
                    r == RowRecency(n)
                IN  /\ IsNumber(la) =>
                           r = normalize_recency_seconds(IntV(LastAccessOf(rows[n])),
                                                         whole)
                    /\ (IsNumber(la) /\ whole > 0
                            /\ LastAccessOf(rows[n]) = whole) => r = One
                    /\ ~aggregate => points[n].recency = r
                    /\ (aggregate /\ Built) =>
                           \E m \in 1..Len(points) :
                               /\ n \in Members(points[m])
                               /\ ~RLess(points[m].recency, r)

C10_Witness ==
    /\ pc = "done"
    /\ ~aggregate
    /\ Len(points) = 3
    /\ points[3].recency = One
    /\ points[1].recency = Frac(1, 2)
    /\ points[2].recency = Zero

(* C5: every recency of every Point lies in [0, 1]; it is 0 for a row      *)
(* whose last_access_time is absent or does not parse, and for every       *)
(* Point of a run in which no surviving row has a positive                 *)
(* last_access_time.                                                       *)
C5_RecencyRange ==
    /\ \A n \in 1..Len(points) : InUnitInterval(points[n].recency)
    /\ \A n \in 1..Len(agg) : InUnitInterval(agg[n].recency_max)
    /\ (Built /\ ~aggregate) =>
           \A n \in 1..Len(points) :
               ~IsNumber(Survivors[n].last_access_time) => points[n].recency = Zero
    /\ (Built /\ aggregate) =>
           \A n \in 1..Len(points) :
               (\A k \in 1..Len(Survivors) :
                    RowKey(Survivors[k]) = PointKey(points[n])
                        => ~IsNumber(Survivors[k].last_access_time))
                   => points[n].recency = Zero
    /\ (Built /\ \A x \in SeenLastAccess : x <= 0) =>
           \A n \in 1..Len(points) : points[n].recency = Zero

C5_Witness ==
    /\ pc = "done"
    /\ ~aggregate
    /\ Len(points) = 3
    /\ \E k \in 1..3 : ~IsNumber(Survivors[k].last_access_time)
    /\ \E k \in 1..3 : IsNumber(Survivors[k].last_access_time)
                          /\ LastAccessOf(Survivors[k]) < 0
    /\ \E k \in 1..3 : points[k].recency = One

(* C4: max_last_access_time_seen is the maximum of the last_access_time    *)
(* values that parse among the surviving rows, and 0 only when there is    *)
(* none; also when all of them are negative or zero.                       *)
C4_MaxSeen ==
    (pc = "done") =>
        meta.max_last_access_time_seen =
            IF SeenLastAccess = {} THEN 0 ELSE Maximum(SeenLastAccess)

FileStates == {fs.points.state, fs.heat_presence.state, fs.heat_engagement.state,
               fs.meta.state}

(* C8 as claimed: when the input cannot be opened or fully iterated the    *)
(* call fails having created or modified none of the four files and made   *)
(* no other change to the output location.                                 *)
C8_NothingChanged ==
    (pc = "failed") => ("written" \notin FileStates /\ fs.dir # "created")

(* C8 as amended: when the input cannot be opened or fully iterated the    *)
(* call fails having created or modified none of the four files, every     *)
(* file being written only after the whole input has been read; out_dir    *)
(* itself may have been created, before the input was opened.              *)
C8_NoFileWritten ==
    /\ (pc = "failed") => "written" \notin FileStates
    /\ ("written" \in FileStates) =>
           (Built /\ i = Len(csv) /\ j = Len(rows_parsed))
    /\ (pc \notin {"mkdir", "failed"}) => fs.dir \in {"created", "preexisting"}

C8_Witness ==
    /\ pc = "failed"
    /\ fs.dir = "created"
    /\ Len(csv) = 3
    /\ FileStates = {"absent"}

\* what the call has produced
Produced ==
    [points |-> points, heat_presence |-> heat_presence,
     heat_engagement |-> heat_engagement, meta |-> meta]

(* C1: a row whose lat or lon is absent, does not parse, is NaN or out of  *)
(* range contributes to nothing: points, both heat arrays,                 *)
(* total_points_output and max_last_access_time_seen are those of the same *)
(* input with such rows removed.                                           *)
C1_DroppedRowsLeaveNoTrace ==
    (pc = "done") =>
        LET without == Convert(Survivors, aggregate, decimals) IN
        /\ points = without.points
        /\ heat_presence = without.heat_presence
        /\ heat_engagement = without.heat_engagement
        /\ meta.total_points_output = without.meta.total_points_output
        /\ meta.max_last_access_time_seen = without.meta.max_last_access_time_seen
        /\ fs.points.data = without.points
        /\ fs.meta.data = without.meta

C1_Witness ==
    /\ pc = "done"
    /\ Len(csv) = 3
    /\ Len(Survivors) = 2
    /\ ~PassesValidation(csv[2])
    /\ LastAccessOf(csv[2]) > meta.max_last_access_time_seen
    /\ meta.max_last_access_time_seen > 0
    /\ Len(points) = 2

\* the row with every field the conversion does not read blanked
Scrub(row) == [row EXCEPT !.member_name = NoName, !.member_id = NoName]

(* C7: inputs that agree row by row on lat, lon, events_attended and       *)
(* last_access_time give the same points, heat arrays and metadata,        *)
(* whatever their other fields hold.                                       *)
C7_OtherFieldsNotRead ==
    (pc = "done") =>
        /\ Produced = Convert([k \in 1..Len(csv) |-> Scrub(csv[k])], aggregate, decimals)
        /\ fs.points.data = points
        /\ fs.heat_presence.data = heat_presence
        /\ fs.heat_engagement.data = heat_engagement
        /\ fs.meta.data = meta

C7_Witness ==
    /\ pc = "done"
    /\ Len(csv) = 3
    /\ csv[1].member_name # csv[2].member_name
    /\ csv[1].member_id # csv[3].member_id
    /\ Scrub(csv[1]) = Scrub(csv[2])
    /\ Len(points) = 2

\* the order of the numbers a cell can parse to; NaN is not ordered
CellLeq(x, y) == FLeq(to_float(x), to_float(y))

\* the cell is absent or does not parse
Unparseable(x) ==
    \/ x.k = "missing"
    \/ x.k = "text" /\ x.s \notin {"-nan", "+nan", "inf", "Infinity", "-inf"}

(* C6: weight_from_events gives a value for every events_attended cell:    *)
(* 1.0 when the cell is absent or does not parse, a value in [1.0, 10.0]   *)
(* for every parsed e >= 0, 1.0 for e < 0, and never less for a greater e. *)
C6_WeightBounded ==
    /\ (pc = "pass1") => Len(rows_parsed) = i
    /\ LET rows == Survivors IN
       \A k \in 1..Len(rows_parsed) :
         LET e == rows[k].events_attended
             w == rows_parsed[k].w_eng
         IN  /\ Unparseable(e) => w = 1000
             /\ 1000 <= w /\ w <= 10000
             /\ (~Unparseable(e) /\ ~CellLeq(Dec(0), e)) => w = 1000
             /\ \A m \in 1..Len(rows_parsed) :
                  (~Unparseable(e) /\ ~Unparseable(rows[m].events_attended)
                      /\ CellLeq(e, rows[m].events_attended))
                    => w <= rows_parsed[m].w_eng

C6_Witness ==
    /\ pc = "pass2"
    /\ Len(rows_parsed) = 3
    /\ rows_parsed[1].w_eng = 10000
    /\ csv[1].events_attended = Dec(81030)
    /\ rows_parsed[2].w_eng = 9999
    /\ csv[3].events_attended = Dec(-30)
    /\ rows_parsed[3].w_eng = 1000

====
